---- MODULE Spec2Model ----
(***************************************************************************)
(* Model of FinanceSystem (src/app.py): the SQLite store with its three    *)
(* tables (products, sales, settings) and the engine's operations.         *)
(*                                                                         *)
(* Numbers.  Money is counted in tenths of the currency unit (0.80 is 8,   *)
(* 80.0 is 800), hours, grams and watts in units, so that every argument   *)
(* is an integer.  A REAL column of the sales table is held in thousandths *)
(* (the integer stored is Scale times the value), which is exact because   *)
(* the only division of the code is by 1000.                               *)
(*                                                                         *)
(* Two specifications.  Spec runs every call to completion before the next *)
(* one starts (one session).  ConcSpec runs add_sale statement by          *)
(* statement, so that the transactions of other sessions on the same       *)
(* database file commit between its statements.                            *)
(***************************************************************************)
EXTENDS Integers, Sequences, FiniteSets

\* ------------------------------------------------------------------ bounds
MaxProducts == 1
MaxSales == 2
MaxDate == 2

\* ------------------------------------------------------- program constants
Scale == 1000
DefaultKwhPrice == 8
DefaultPrinterPower == 200
DefaultFilamentPriceKg == 800

Keys == {"kwh_price", "printer_power", "filament_price_kg"}

\* ------------------------------------------------------------------ inputs
\* An optional argument is <<>> (None) or <<v>>.
None == <<>>
ProductArgs == { <<"vaso", 5, 50, 250>> }
ProductIds == 1..(MaxProducts + 1)
Quantities == {-1, 1, 2}
\* update_settings(kwh_price, printer_power, filament_price).  One session:
\* the dashboard's call with all three values, and a call with zeros and an
\* unsupplied value.  Interleaved: a call with a negative value as well.
UpdateArgs == { << <<9>>, <<300>>, <<900>> >>, << <<0>>, None, <<0>> >> }
ConcUpdateArgs == { << <<9>>, <<300>>, <<900>> >>, << <<-8>>, None, <<0>> >> }

VARIABLES products, sales, settings, today, conn, last, pc, loc, seen

vars == <<products, sales, settings, today, conn, last, pc, loc, seen>>

\* ---------------------------------------------------------------- helpers
RECURSIVE SumOver(_, _)
SumOver(df, col) ==
    IF df = <<>> THEN 0 ELSE df[1][col] + SumOver(Tail(df), col)

\* the real quotient a / b, kept as the pair of its terms
Quotient(a, b) == [num |-> a, den |-> b]

\* cursor.fetchone()[0] of SELECT value FROM settings WHERE key = k
select_setting(k) == (CHOOSE r \in settings : r.key = k).value

\* INSERT OR IGNORE INTO settings VALUES (k, v): key is the PRIMARY KEY
insert_or_ignore(tbl, k, v) ==
    IF \E r \in tbl : r.key = k THEN tbl ELSE tbl \cup {[key |-> k, value |-> v]}

\* UPDATE settings SET value = v WHERE key = k
update_value(tbl, k, v) ==
    {IF r.key = k THEN [key |-> k, value |-> v] ELSE r : r \in tbl}

\* Python truth value of an optional number: None and 0 are false
truthy(x) == x # None /\ x[1] # 0

SettingsTriple(tbl) ==
    << (CHOOSE r \in tbl : r.key = "kwh_price").value,
       (CHOOSE r \in tbl : r.key = "printer_power").value,
       (CHOOSE r \in tbl : r.key = "filament_price_kg").value >>

\* compute_cost with the filament cost of one unit, whatever the quantity
compute_cost_unit_filament(product, product_id, quantity, kwh_price, printer_power, filament_price_kg, date) ==
    [ product_id    |-> product_id,
      quantity      |-> quantity,
      sale_price    |-> Scale * (product.sale_price * quantity),
      filament_cost |-> ((Scale * product.filament_weight) \div 1000) * filament_price_kg,
      energy_cost   |-> ((Scale * printer_power) \div 1000) * product.print_time * kwh_price * quantity,
      date          |-> date ]

\* the row written by add_sale (lines 83-88)
compute_cost(product, product_id, quantity, kwh_price, printer_power, filament_price_kg, date) ==
    [ product_id    |-> product_id,
      quantity      |-> quantity,
      sale_price    |-> Scale * (product.sale_price * quantity),
      filament_cost |-> ((Scale * product.filament_weight) \div 1000) * filament_price_kg * quantity,
      energy_cost   |-> ((Scale * printer_power) \div 1000) * product.print_time * kwh_price * quantity,
      date          |-> date ]

\* SELECT * FROM products WHERE id = ?  then fetchone(): a row or None
select_product(product_id) ==
    IF product_id \in DOMAIN products THEN <<products[product_id]>> ELSE None

IdleLoc == [product_id |-> 0, quantity |-> 0, product |-> None,
            kwh_price |-> 0, printer_power |-> 0, filament_price_kg |-> 0]

Call(op, args, error, ret) == [op |-> op, args |-> args, error |-> error, ret |-> ret]

\* ------------------------------------------------------------------- Init
\* The store right after the first FinanceSystem() on a new database file.
Init ==
    /\ products = <<>>
    /\ sales = <<>>
    /\ settings = { [key |-> "kwh_price", value |-> DefaultKwhPrice],
                    [key |-> "printer_power", value |-> DefaultPrinterPower],
                    [key |-> "filament_price_kg", value |-> DefaultFilamentPriceKg] }
    /\ today = 1
    /\ conn = "closed"
    /\ last = Call("setup_database", <<>>, "none", <<>>)
    /\ pc = "idle"
    /\ loc = IdleLoc
    /\ seen = {}

\* ---------------------------------------------------------------- actions
\* conn is the connection opened by the last call that returned: "closed"
\* when the call reached its conn.close(), "open" when it did not.
\* settings committed by another transaction while add_sale is in flight
Committed(tbl) == IF pc = "idle" THEN seen ELSE seen \cup {SettingsTriple(tbl)}

\* setup_database with INSERT OR REPLACE for the default values
setup_database_replace ==
    /\ settings' = { [key |-> "kwh_price", value |-> DefaultKwhPrice],
                     [key |-> "printer_power", value |-> DefaultPrinterPower],
                     [key |-> "filament_price_kg", value |-> DefaultFilamentPriceKg] }
    /\ seen' = seen
    /\ last' = Call("setup_database", <<>>, "none", <<>>)
    /\ conn' = "closed"
    /\ UNCHANGED <<products, sales, today, pc, loc>>

setup_database ==
    /\ settings' = insert_or_ignore(
                     insert_or_ignore(
                       insert_or_ignore(settings, "kwh_price", DefaultKwhPrice),
                       "printer_power", DefaultPrinterPower),
                     "filament_price_kg", DefaultFilamentPriceKg)
    /\ seen' = Committed(settings')
    /\ last' = Call("setup_database", <<>>, "none", <<>>)
    /\ conn' = "closed"
    /\ UNCHANGED <<products, sales, today, pc, loc>>

add_product(name, print_time, filament_weight, sale_price) ==
    /\ Len(products) < MaxProducts
    /\ products' = Append(products, [name |-> name, print_time |-> print_time,
                                     filament_weight |-> filament_weight,
                                     sale_price |-> sale_price])
    /\ last' = Call("add_product", <<>>, "none", <<>>)
    /\ conn' = "closed"
    /\ UNCHANGED <<sales, settings, today, pc, loc, seen>>

\* the end of add_sale (lines 83-91) with the values fetched before it
add_sale_write(product_id, quantity, product, kwh_price, printer_power, filament_price_kg) ==
    IF product = None
    THEN \* product[2] raises TypeError; conn.close() is not reached
         /\ conn' = "open"
         /\ last' = Call("add_sale", <<product_id, quantity>>, "TypeError", <<>>)
         /\ UNCHANGED sales
    ELSE /\ Len(sales) < MaxSales
         /\ sales' = Append(sales, compute_cost(product[1], product_id, quantity, kwh_price,
                                                printer_power, filament_price_kg, today))
         /\ last' = Call("add_sale", <<product_id, quantity>>, "none", <<>>)
         /\ conn' = "closed"

add_sale(product_id, quantity) ==
    /\ pc = "idle"
    /\ add_sale_write(product_id, quantity, select_product(product_id),
                      select_setting("kwh_price"), select_setting("printer_power"),
                      select_setting("filament_price_kg"))
    /\ UNCHANGED <<products, settings, today, pc, loc, seen>>

\* update_settings that also recomputes the costs of the recorded sales
update_settings_recompute(kwh_price, printer_power, filament_price) ==
    /\ settings' =
         LET s1 == IF truthy(kwh_price)
                   THEN update_value(settings, "kwh_price", kwh_price[1]) ELSE settings
             s2 == IF truthy(printer_power)
                   THEN update_value(s1, "printer_power", printer_power[1]) ELSE s1
         IN  IF truthy(filament_price)
             THEN update_value(s2, "filament_price_kg", filament_price[1]) ELSE s2
    /\ sales' = [i \in DOMAIN sales |->
                   compute_cost(products[sales[i].product_id], sales[i].product_id,
                                sales[i].quantity, SettingsTriple(settings')[1],
                                SettingsTriple(settings')[2], SettingsTriple(settings')[3],
                                sales[i].date)]
    /\ seen' = seen
    /\ last' = Call("update_settings", <<kwh_price, printer_power, filament_price>>, "none", <<>>)
    /\ conn' = "closed"
    /\ UNCHANGED <<products, today, pc, loc>>

update_settings(kwh_price, printer_power, filament_price) ==
    /\ settings' =
         LET s1 == IF truthy(kwh_price)
                   THEN update_value(settings, "kwh_price", kwh_price[1]) ELSE settings
             s2 == IF truthy(printer_power)
                   THEN update_value(s1, "printer_power", printer_power[1]) ELSE s1
         IN  IF truthy(filament_price)
             THEN update_value(s2, "filament_price_kg", filament_price[1]) ELSE s2
    /\ seen' = Committed(settings')
    /\ last' = Call("update_settings", <<kwh_price, printer_power, filament_price>>, "none", <<>>)
    /\ conn' = "closed"
    /\ UNCHANGED <<products, sales, today, pc, loc>>

\* the rows of sales s JOIN products p ON s.product_id = p.id, with s.id
joined_rows ==
    { [ id |-> i, product_id |-> sales[i].product_id, quantity |-> sales[i].quantity,
        sale_price |-> sales[i].sale_price, filament_cost |-> sales[i].filament_cost,
        energy_cost |-> sales[i].energy_cost, date |-> sales[i].date,
        product_name |-> products[sales[i].product_id].name ]
      : i \in {j \in DOMAIN sales : sales[j].product_id \in DOMAIN products} }

\* ORDER BY s.date DESC: the order of rows of one date is not specified by
\* the query, so that every order of them is a possible result
order_by_date_desc(rows) ==
    { df \in [1..Cardinality(rows) -> rows] :
        /\ \A i, j \in DOMAIN df : i # j => df[i] # df[j]
        /\ \A i, j \in DOMAIN df : i < j => df[i].date >= df[j].date }

get_products ==
    /\ pc = "idle"
    /\ last' = Call("get_products", <<>>, "none", products)
    /\ conn' = "closed"
    /\ UNCHANGED <<products, sales, settings, today, pc, loc, seen>>

get_sales ==
    /\ pc = "idle"
    /\ \E df \in order_by_date_desc(joined_rows) :
           last' = Call("get_sales", <<>>, "none", df)
    /\ conn' = "closed"
    /\ UNCHANGED <<products, sales, settings, today, pc, loc, seen>>

\* financial_summary with the energy cost left out of custo_total
financial_summary_no_energy(df) ==
    IF df = <<>>
    THEN [receita_total |-> 0, custo_total |-> 0, lucro |-> 0,
          margem |-> Quotient(0, 1)]
    ELSE LET receita_total == SumOver(df, "sale_price")
             custo_total == SumOver(df, "filament_cost")
             lucro == receita_total - custo_total
         IN  [receita_total |-> receita_total, custo_total |-> custo_total,
              lucro |-> lucro,
              margem |-> IF receita_total > 0
                         THEN Quotient(lucro * 100, receita_total)
                         ELSE Quotient(0, 1)]

\* lines 112-125 on the frame returned by get_sales; margem is the quotient
\* num / den
financial_summary(df) ==
    IF df = <<>>
    THEN [receita_total |-> 0, custo_total |-> 0, lucro |-> 0,
          margem |-> Quotient(0, 1)]
    ELSE LET receita_total == SumOver(df, "sale_price")
             custo_total == SumOver(df, "filament_cost") + SumOver(df, "energy_cost")
             lucro == receita_total - custo_total
         IN  [receita_total |-> receita_total, custo_total |-> custo_total,
              lucro |-> lucro,
              margem |-> IF receita_total > 0
                         THEN Quotient(lucro * 100, receita_total)
                         ELSE Quotient(0, 1)]

get_financial_summary ==
    /\ pc = "idle"
    /\ \E df \in order_by_date_desc(joined_rows) :
           last' = Call("get_financial_summary", <<>>, "none", financial_summary(df))
    /\ conn' = "closed"
    /\ UNCHANGED <<products, sales, settings, today, pc, loc, seen>>

\* ---------------------------------------------- add_sale, statement by statement
\* lines 67-72: connect, SELECT the product
add_sale_begin(product_id, quantity) ==
    /\ pc = "idle"
    /\ pc' = "kwh_price"
    /\ loc' = [IdleLoc EXCEPT !.product_id = product_id, !.quantity = quantity,
                              !.product = select_product(product_id)]
    /\ seen' = {SettingsTriple(settings)}
    /\ UNCHANGED <<products, sales, settings, today, conn, last>>

\* lines 75-76
add_sale_kwh_price ==
    /\ pc = "kwh_price"
    /\ pc' = "printer_power"
    /\ loc' = [loc EXCEPT !.kwh_price = select_setting("kwh_price")]
    /\ UNCHANGED <<products, sales, settings, today, conn, last, seen>>

\* lines 77-78
add_sale_printer_power ==
    /\ pc = "printer_power"
    /\ pc' = "filament_price_kg"
    /\ loc' = [loc EXCEPT !.printer_power = select_setting("printer_power")]
    /\ UNCHANGED <<products, sales, settings, today, conn, last, seen>>

\* lines 79-80
add_sale_filament_price_kg ==
    /\ pc = "filament_price_kg"
    /\ pc' = "insert"
    /\ loc' = [loc EXCEPT !.filament_price_kg = select_setting("filament_price_kg")]
    /\ UNCHANGED <<products, sales, settings, today, conn, last, seen>>

\* lines 83-91
add_sale_insert ==
    /\ pc = "insert"
    /\ add_sale_write(loc.product_id, loc.quantity, loc.product,
                      loc.kwh_price, loc.printer_power, loc.filament_price_kg)
    /\ pc' = "idle"
    /\ loc' = IdleLoc
    /\ seen' = {}
    /\ UNCHANGED <<products, settings, today>>

\* datetime.now().date() moves on
NextDay ==
    /\ today < MaxDate
    /\ today' = today + 1
    /\ UNCHANGED <<products, sales, settings, conn, last, pc, loc, seen>>

Next ==
    \/ setup_database
    \/ \E a \in ProductArgs : add_product(a[1], a[2], a[3], a[4])
    \/ \E p \in ProductIds, q \in Quantities : add_sale(p, q)
    \/ \E a \in UpdateArgs : update_settings(a[1], a[2], a[3])
    \/ get_products
    \/ get_sales
    \/ get_financial_summary
    \/ NextDay

Spec == Init /\ [][Next]_vars

ConcNext ==
    \/ \E p \in ProductIds, q \in Quantities : add_sale_begin(p, q)
    \/ add_sale_kwh_price
    \/ add_sale_printer_power
    \/ add_sale_filament_price_kg
    \/ add_sale_insert
    \/ setup_database
    \/ \E a \in ProductArgs : add_product(a[1], a[2], a[3], a[4])
    \/ \E a \in ConcUpdateArgs : update_settings(a[1], a[2], a[3])
    \/ NextDay

ConcSpec == Init /\ [][ConcNext]_vars

\* ----------------------------------------------------------------- claims
DefaultTriple == <<DefaultKwhPrice, DefaultPrinterPower, DefaultFilamentPriceKg>>

\* the row that add_sale would write now for the product and quantity of row s
Recomputed(s) ==
    compute_cost(products[s.product_id], s.product_id, s.quantity,
                 select_setting("kwh_price"), select_setting("printer_power"),
                 select_setting("filament_price_kg"), s.date)

\* C1: a recorded Sale is never updated or deleted: in every step, whatever
\* the operation (update_settings with any values included), every row of the
\* ledger is still there with the same total_sale_amount, filament_cost and
\* energy_cost.
C1_SalesNeverChange ==
    [][\A i \in DOMAIN sales : i \in DOMAIN sales' /\ sales'[i] = sales[i]]_vars

\* C1 witness: update_settings has just changed the settings, and a sale
\* recorded before still holds costs that the new settings would not give.
C1_Witness ==
    /\ last.op = "update_settings"
    /\ \E i \in DOMAIN sales :
          /\ sales[i].quantity >= 1
          /\ sales[i].energy_cost # Recomputed(sales[i]).energy_cost
          /\ sales[i].filament_cost # Recomputed(sales[i]).filament_cost

\* C2: when add_sale reaches its INSERT, the three settings it read are one
\* consistent snapshot: all three as the store held them at some moment
\* since the call began (before or after each concurrent update), never a
\* mixture.
C2_ConsistentSnapshot ==
    pc = "insert" =>
        <<loc.kwh_price, loc.printer_power, loc.filament_price_kg>> \in seen

\* C3: add_sale with a product_id that is not in the catalog fails with
\* NotFoundError and leaves the ledger as it was.
C3_UnknownProductNotFound ==
    [][(last' # last /\ last'.op = "add_sale" /\ last'.args[1] \notin DOMAIN products)
         => (last'.error = "NotFoundError" /\ sales' = sales)]_vars

\* C4: the row appended by add_sale for product p and quantity q under the
\* settings of that moment holds energy_cost = (printer_power / 1000) *
\* print_time * kwh_price * q, filament_cost = (filament_weight / 1000) *
\* filament_price_kg * q and total_sale_amount = sale_price * q, and each of
\* the three is doubled when q is doubled.
C4_CostFormulas ==
    [][Len(sales') = Len(sales) + 1 =>
         LET s == sales'[Len(sales')]
             p == products[s.product_id]
             q == s.quantity
             kwh == select_setting("kwh_price")
             power == select_setting("printer_power")
             fil == select_setting("filament_price_kg")
             twice == compute_cost(p, s.product_id, 2 * q, kwh, power, fil, s.date)
         IN  /\ 1000 * s.energy_cost = Scale * (power * p.print_time * kwh * q)
             /\ 1000 * s.filament_cost = Scale * (p.filament_weight * fil * q)
             /\ s.sale_price = Scale * (p.sale_price * q)
             /\ twice.energy_cost = 2 * s.energy_cost
             /\ twice.filament_cost = 2 * s.filament_cost
             /\ twice.sale_price = 2 * s.sale_price]_vars

\* C4 witness: add_sale has just recorded a sale of quantity 2 under settings
\* that are not the defaults.
C4_Witness ==
    /\ last.op = "add_sale" /\ last.error = "none"
    /\ sales # <<>>
    /\ sales[Len(sales)].quantity = 2
    /\ sales[Len(sales)].energy_cost > 0
    /\ SettingsTriple(settings) # DefaultTriple

\* C5: every Sale of the ledger has quantity >= 1 and total_sale_amount,
\* filament_cost and energy_cost >= 0, and add_sale with a quantity that is
\* not positive fails with InvalidParameterError (stated here for a product
\* of the catalog, where no other failure can come first).
C5_PositiveQuantity ==
    /\ \A i \in DOMAIN sales :
          /\ sales[i].quantity >= 1
          /\ sales[i].sale_price >= 0
          /\ sales[i].filament_cost >= 0
          /\ sales[i].energy_cost >= 0
    /\ (last.op = "add_sale" /\ last.args[2] < 1 /\ last.args[1] \in DOMAIN products)
          => last.error = "InvalidParameterError"

RECURSIVE LedgerTotal(_, _)
LedgerTotal(ids, col) ==
    IF ids = {} THEN 0
    ELSE LET i == CHOOSE j \in ids : TRUE
         IN  sales[i][col] + LedgerTotal(ids \ {i}, col)

\* C6: get_financial_summary returns total_revenue = the sum of
\* total_sale_amount over the ledger, total_cost = the sum of filament_cost
\* plus the sum of energy_cost, profit = total_revenue - total_cost and
\* margin_pct = profit / total_revenue * 100 when total_revenue > 0 and 0
\* otherwise; on an empty ledger all four are 0.
C6_FinancialSummary ==
    last.op = "get_financial_summary" =>
        LET revenue == LedgerTotal(DOMAIN sales, "sale_price")
            cost == LedgerTotal(DOMAIN sales, "filament_cost")
                      + LedgerTotal(DOMAIN sales, "energy_cost")
            r == last.ret
        IN  /\ r.receita_total = revenue
            /\ r.custo_total = cost
            /\ r.lucro = revenue - cost
            /\ r.margem = IF revenue > 0
                          THEN Quotient((revenue - cost) * 100, revenue)
                          ELSE Quotient(0, 1)
            /\ sales = <<>> =>
                  /\ r.receita_total = 0 /\ r.custo_total = 0
                  /\ r.lucro = 0 /\ r.margem.num = 0

\* C6 witness: a summary returned over two sales with a positive revenue, a
\* positive energy cost and a positive margin.
C6_Witness ==
    /\ last.op = "get_financial_summary"
    /\ Len(sales) = 2
    /\ last.ret.receita_total > 0
    /\ LedgerTotal(DOMAIN sales, "energy_cost") > 0
    /\ last.ret.margem.num > 0

AllPositive == \A r \in settings : r.value > 0

\* C7: update_settings leaves each unsupplied key at its value, rejects a
\* supplied value that is not positive with InvalidParameterError and then
\* changes no setting, and the three settings are strictly positive always.
C7_UpdateValidated ==
    [][/\ AllPositive'
       /\ (last' # last /\ last'.op = "update_settings") =>
            LET a == last'.args
                old == SettingsTriple(settings)
                new == SettingsTriple(settings')
            IN  /\ \A i \in 1..3 : a[i] = None => new[i] = old[i]
                /\ (\E i \in 1..3 : a[i] # None /\ a[i][1] <= 0) =>
                       (last'.error = "InvalidParameterError" /\ new = old)]_vars

\* C8: get_sales returns every Sale of the ledger exactly once, by date
\* descending and, within one date, by id descending.
C8_SalesOrder ==
    last.op = "get_sales" =>
        LET df == last.ret
        IN  /\ Len(df) = Len(sales)
            /\ {df[i].id : i \in DOMAIN df} = DOMAIN sales
            /\ \A i, j \in DOMAIN df : i < j =>
                  \/ df[i].date > df[j].date
                  \/ (df[i].date = df[j].date /\ df[i].id > df[j].id)

OneValuePerKey ==
    /\ {r.key : r \in settings} = Keys
    /\ \A k \in Keys : Cardinality({r \in settings : r.key = k}) = 1

\* C9: setup_database on a store that exists changes no product row, no sale
\* row and no settings value, and the settings table holds exactly one value
\* for each of the three keys in every state.
C9_SetupIdempotent ==
    [][/\ OneValuePerKey /\ OneValuePerKey'
       /\ (last' # last /\ last'.op = "setup_database") =>
             (products' = products /\ sales' = sales /\ settings' = settings)]_vars

\* C9 witness: setup_database has just run on a store with a product, a sale
\* and settings that are not the defaults.
C9_Witness ==
    /\ last.op = "setup_database"
    /\ products # <<>> /\ sales # <<>>
    /\ SettingsTriple(settings) # DefaultTriple
    /\ OneValuePerKey

\* C10: after any operation returns or raises, the connection it opened is
\* closed.
C10_ConnectionReleased == conn = "closed"

====
